---- MODULE Spec2Model ----
(***************************************************************************)
(* A model of BookScraper (book_scraper.py): the per-item extractor, the   *)
(* pagination loop of scrape_all_pages, the CSV serializer and run().      *)
(*                                                                         *)
(* Text is a sequence of one-character strings, so that strip, replace,    *)
(* substring search and lower-casing are computed as the code computes     *)
(* them.  An optional value is <<>> (Python None) or <<v>>.                *)
(* A URL is the sequence of its path segments below the host; the last     *)
(* segment is the document ("" for a directory URL such as the base URL).  *)
(***************************************************************************)
EXTENDS Integers, Sequences, FiniteSets, TLC

VARIABLES
    \* ---- the site and the caller (environment) ----
    site,          \* URL -> page served there (URLs outside the domain: 404)
    caller,        \* which entry point is exercised
    \* ---- BookScraper / scrape_all_pages locals ----
    pc,            \* position in run / scrape_all_pages
    current_url,   \* optional URL
    all_books,     \* accumulator of scrape_all_pages
    page_books,    \* result of the last scrape_page call
    page_number,
    result,        \* value returned by the scrape (optional sequence)
    books_data,    \* self.books_data
    csv_file,      \* content of the output file: <<>> absent, <<lines>> present
    run_result,    \* return value of run / save_to_csv: <<>> not yet, <<b>>
    \* ---- history (not program state) ----
    events,        \* fetches and sleeps, in the order they happened
    steps,         \* one entry per loop iteration: its URL, whether the
                   \* scrape_page fetch succeeded, how the second fetch went
    io_outcome,    \* what the file system did for the last save
    \* ---- extractor harness ----
    book_element, book_data, books, epc,
    \* ---- extract_rating harness ----
    rating_class, rating, rpc,
    \* ---- get_page harness ----
    transport,     \* what the HTTP client and the parser do for this call
    gp_result,     \* how the call of get_page ended
    gpc

vars == <<site, caller, pc, current_url, all_books, page_books, page_number,
          result, books_data, csv_file, run_result, events, steps,
          io_outcome, book_element, book_data, books, epc,
          rating_class, rating, rpc, transport, gp_result, gpc>>

crawlVars == <<site, caller, pc, current_url, all_books, page_books,
               page_number, result, books_data, csv_file, run_result,
               events, steps, io_outcome>>
extractVars == <<book_element, book_data, books, epc>>
ratingVars == <<rating_class, rating, rpc>>
getPageVars == <<transport, gp_result, gpc>>

\* ---------------------------------------------------------------- bounds
MaxFetches == 4        \* fetches issued in one crawl (caps looping sites)
MaxItems == 2          \* book elements on one listing page
MaxClassTokens == 2    \* class tokens of a rating node next to "star-rating"

\* ---------------------------------------------------------------- options
None == <<>>
Some(v) == <<v>>
IsNone(o) == o = <<>>
Val(o) == o[1]

\* ------------------------------------------------------------------ text
Pound == "GBP"         \* stands for the one character U+00A3
UpperCase == <<"A","B","C","D","E","F","G","H","I","J","K","L","M",
               "N","O","P","Q","R","S","T","U","V","W","X","Y","Z">>
LowerCase == <<"a","b","c","d","e","f","g","h","i","j","k","l","m",
               "n","o","p","q","r","s","t","u","v","w","x","y","z">>
Digits == <<"0","1","2","3","4","5","6","7","8","9">>

IsSpace(c) == c \in {" ", "\n", "\t"}

LowerChar(c) ==
    IF \E i \in 1..26 : UpperCase[i] = c
    THEN LowerCase[CHOOSE i \in 1..26 : UpperCase[i] = c]
    ELSE c

\* str.lower()
Lower(s) == [i \in 1..Len(s) |-> LowerChar(s[i])]

RECURSIVE LStrip(_)
LStrip(s) == IF s # <<>> /\ IsSpace(Head(s)) THEN LStrip(Tail(s)) ELSE s

RECURSIVE RStrip(_)
RStrip(s) ==
    IF s # <<>> /\ IsSpace(s[Len(s)]) THEN RStrip(SubSeq(s, 1, Len(s) - 1))
    ELSE s

\* str.strip()
Strip(s) == RStrip(LStrip(s))

\* needle in hay
Contains(hay, needle) ==
    \E i \in 0..(Len(hay) - Len(needle)) :
        \A k \in 1..Len(needle) : hay[i + k] = needle[k]

\* s.replace(c, '') for a one-character c
RemoveChar(s, c) == SelectSeq(s, LAMBDA x : x # c)

RECURSIVE Join(_, _)
\* sep.join(parts)
Join(sep, parts) ==
    IF parts = <<>> THEN <<>>
    ELSE IF Len(parts) = 1 THEN parts[1]
    ELSE parts[1] \o sep \o Join(sep, Tail(parts))

IsDigit(c) == \E i \in 1..10 : Digits[i] = c
DigitVal(c) == (CHOOSE i \in 1..10 : Digits[i] = c) - 1
AllDigits(s) == \A i \in 1..Len(s) : IsDigit(s[i])

RECURSIVE DigitsVal(_)
DigitsVal(s) ==
    IF s = <<>> THEN 0
    ELSE 10 * DigitsVal(SubSeq(s, 1, Len(s) - 1)) + DigitVal(s[Len(s)])

\* float(text), for decimal literals with at most two fraction digits; the
\* value is in hundredths.  <<>> stands for ValueError.
ParseFloat(text) ==
    LET s    == Strip(text)
        neg  == s # <<>> /\ s[1] = "-"
        body == IF s # <<>> /\ s[1] \in {"-", "+"} THEN Tail(s) ELSE s
        dots == {i \in 1..Len(body) : body[i] = "."}
        dot  == IF dots = {} THEN Len(body) + 1 ELSE CHOOSE i \in dots : TRUE
        ip   == SubSeq(body, 1, dot - 1)
        fp   == SubSeq(body, dot + 1, Len(body))
        ok   == /\ Cardinality(dots) <= 1
                /\ AllDigits(ip) /\ AllDigits(fp)
                /\ Len(ip) + Len(fp) > 0
                /\ Len(fp) <= 2
        frac == IF Len(fp) = 0 THEN 0
                ELSE IF Len(fp) = 1 THEN 10 * DigitVal(fp[1])
                ELSE DigitsVal(fp)
        mag  == 100 * DigitsVal(ip) + frac
    IN  IF ok THEN Some(IF neg THEN 0 - mag ELSE mag) ELSE None

\* ------------------------------------------------------------------ URLs
\* An href attribute value: a relative path, an absolute URL, or a string
\* urllib cannot split ("http://[x": urljoin raises ValueError).
RelHref(path) == [kind |-> "rel", path |-> path]
AbsHref(path) == [kind |-> "abs", path |-> path]
BadHref == [kind |-> "bad", path |-> <<>>]
EmptyHref == RelHref(<<>>)

UrlJoinRaises(href) == href.kind = "bad"

\* urljoin(base, href) when it does not raise
UrlJoin(base, href) ==
    IF href.kind = "abs" THEN href.path
    ELSE IF href.path = <<>> THEN base
    ELSE SubSeq(base, 1, Len(base) - 1) \o href.path

base_url == <<"">>

\* ------------------------------------------------------------- extractor
rating_map == << [word |-> <<"O","n","e">>,         rating |-> 1],
                 [word |-> <<"T","w","o">>,         rating |-> 2],
                 [word |-> <<"T","h","r","e","e">>, rating |-> 3],
                 [word |-> <<"F","o","u","r">>,     rating |-> 4],
                 [word |-> <<"F","i","v","e">>,     rating |-> 5] >>

\* extract_rating with the words compared after lower-casing both sides
extract_rating_nocase(rc) ==
    LET hits == {i \in 1..5 : Contains(Lower(rc), Lower(rating_map[i].word))}
    IN  IF hits = {} THEN None
        ELSE Some(rating_map[CHOOSE i \in hits : \A j \in hits : i <= j].rating)

\* BookScraper.extract_rating: the first entry of rating_map, in its
\* insertion order, whose word occurs in rating_class
extract_rating(rc) ==
    LET hits == {i \in 1..5 : Contains(rc, rating_map[i].word)}
    IN  IF hits = {} THEN None
        ELSE Some(rating_map[CHOOSE i \in hits : \A j \in hits : i <= j].rating)

InStockText == <<"I","n"," ","s","t","o","c","k">>
OutOfStockText == <<"O","u","t"," ","o","f"," ","s","t","o","c","k">>
instockWord == <<"i","n","s","t","o","c","k">>
outofstockWord == <<"o","u","t","o","f","s","t","o","c","k">>

\* lines 193-200: normalisation of the availability text
NormalizeAvailability(raw) ==
    LET availability_text == Strip(raw)
    IN  IF Contains(availability_text, InStockText)
           \/ Contains(Lower(availability_text), instockWord)
        THEN InStockText
        ELSE IF Contains(availability_text, OutOfStockText)
                \/ Contains(Lower(availability_text), outofstockWord)
        THEN OutOfStockText
        ELSE availability_text

\* A book element (article.product_pod), by what the extractor reads of it:
\*   h3, a      : is there an h3, and an a inside it
\*   title, href: the a's attributes (optional)
\*   price      : text of p.price_color (optional)
\*   rating     : class tokens of p.star-rating (optional)
\*   instock, outofstock : text of p.instock / p.outofstock (optional)
TitleOf(el) == Strip(IF IsNone(el.title) THEN <<>> ELSE Val(el.title))

PriceOf(el) ==
    IF IsNone(el.price) THEN None
    ELSE ParseFloat(RemoveChar(Strip(Val(el.price)), Pound))

RatingOf(el) ==
    IF IsNone(el.rating) THEN None
    ELSE extract_rating(Join(<<" ">>, Val(el.rating)))

AvailabilityOf(el) ==
    LET availability_tag == IF ~IsNone(el.instock) THEN el.instock
                            ELSE el.outofstock
    IN  IF IsNone(availability_tag) THEN None
        ELSE Some(NormalizeAvailability(Val(availability_tag)))

HrefOf(el) == IF IsNone(el.href) THEN EmptyHref ELSE Val(el.href)

\* BookScraper.extract_book_data: an optional record
extract_book_data(el) ==
    IF ~(el.h3 /\ el.a) THEN None                      \* title not found
    ELSE IF UrlJoinRaises(HrefOf(el)) THEN None        \* except Exception
    ELSE Some([Title        |-> TitleOf(el),
               Price        |-> PriceOf(el),
               Rating       |-> RatingOf(el),
               Availability |-> AvailabilityOf(el),
               URL          |-> Some(UrlJoin(base_url, HrefOf(el)))])

\* "if book_data:" (lines 246-249): a dict is kept when it is not None and
\* has at least one key; every dict extract_book_data returns has five.
Truthy(bd) == ~IsNone(bd)

RECURSIVE ScrapeItems(_)
\* the loop of scrape_page over the book elements of a fetched page
ScrapeItems(els) ==
    IF els = <<>> THEN <<>>
    ELSE LET bd == extract_book_data(Head(els))
         IN  (IF Truthy(bd) THEN <<Val(bd)>> ELSE <<>>) \o ScrapeItems(Tail(els))

\* ------------------------------------------------- inputs of the harnesses
StarRating == <<"s","t","a","r","-","r","a","t","i","n","g">>

\* class tokens a rating node may carry
RatingTokens ==
    { StarRating,
      <<"O","n","e">>, <<"T","w","o">>, <<"T","h","r","e","e">>,
      <<"F","o","u","r">>, <<"F","i","v","e">>,
      <<"o","n","e">>, <<"T","H","R","E","E">>, <<"f","i","v","e">>,
      <<"N","e","t","W","o","r","k">>, <<"n","e","T","w","o","r","k">>,
      <<"F","o","u","r","t","h">> }

RECURSIVE SeqsUpTo(_, _)
SeqsUpTo(S, n) ==
    IF n = 0 THEN {<<>>}
    ELSE LET shorter == SeqsUpTo(S, n - 1)
         IN  shorter \cup {Append(q, x) : q \in shorter, x \in S}

RatingClassStrings ==
    {Join(<<" ">>, toks) : toks \in SeqsUpTo(RatingTokens, MaxClassTokens)}

HeadShapes == { [h3 |-> FALSE, a |-> FALSE],
                [h3 |-> TRUE,  a |-> FALSE],
                [h3 |-> TRUE,  a |-> TRUE] }
TitleAttrs == { None, Some(<<>>), Some(<<" ">>), Some(<<"A">>),
                Some(<<" ","B"," ">>) }
HrefAttrs  == { None, Some(RelHref(<<"catalogue","a","index.html">>)),
                Some(BadHref) }
PriceTexts == { None,
                Some(<<Pound,"5","1",".","7","7">>),
                Some(<<" ",Pound,"1","2",".","5","\n">>),
                Some(<<Pound,"-","5",".","0","0">>),
                Some(<<Pound,"a","b","c">>),
                Some(<<>>) }
RatingAttrs == { None,
                 Some(<<StarRating>>),
                 Some(<<StarRating, <<"T","h","r","e","e">> >>),
                 Some(<<StarRating, <<"t","h","r","e","e">> >>),
                 Some(<<StarRating, <<"T","w","o">>, <<"O","n","e">> >>) }
StockTexts == { [instock |-> None, outofstock |-> None],
                [instock |-> Some(<<"\n"," ">> \o InStockText \o <<"\n">>),
                 outofstock |-> None],
                [instock |-> None, outofstock |-> Some(OutOfStockText)],
                [instock |-> Some(<<"S","o","o","n"," ">>),
                 outofstock |-> Some(OutOfStockText)],
                [instock |-> None,
                 outofstock |-> Some(<<"O","U","T","O","F","S","T","O","C","K">>)],
                [instock |-> Some(<<>>), outofstock |-> None] }

Element(hs, t, h, p, r, st) ==
    [h3 |-> hs.h3, a |-> hs.a, title |-> t, href |-> h, price |-> p,
     rating |-> r, instock |-> st.instock, outofstock |-> st.outofstock]

BookElements ==
    { Element(hs, t, h, p, r, st) :
        hs \in HeadShapes, t \in TitleAttrs, h \in HrefAttrs,
        p \in PriceTexts, r \in RatingAttrs, st \in StockTexts }

\* ------------------------------------------------------------- the site
Page2Url == <<"catalogue", "page-2.html">>
SiteUrls == {base_url, Page2Url}      \* every other URL answers 404

ItemA == [h3 |-> TRUE, a |-> TRUE, title |-> Some(<<"A">>),
          href |-> Some(RelHref(<<"catalogue","a","index.html">>)),
          price |-> Some(<<Pound,"5","1",".","7","7">>),
          rating |-> Some(<<StarRating, <<"T","h","r","e","e">> >>),
          instock |-> Some(InStockText), outofstock |-> None]
ItemB == [h3 |-> TRUE, a |-> TRUE, title |-> Some(<<"B">>),
          href |-> Some(RelHref(<<"b","index.html">>)),
          price |-> None,
          rating |-> Some(<<StarRating>>),
          instock |-> None, outofstock |-> Some(OutOfStockText)]
ItemNoLink == [h3 |-> TRUE, a |-> FALSE, title |-> None, href |-> None,
               price |-> Some(<<Pound,"1",".","0","0">>),
               rating |-> None, instock |-> None, outofstock |-> None]
CrawlItems == {ItemA, ItemB, ItemNoLink}

\* the pagination markup: li.next, the a inside it, and its href
NextIndicators ==
    { [li |-> FALSE, a |-> FALSE, href |-> None],
      [li |-> TRUE,  a |-> FALSE, href |-> None],
      [li |-> TRUE,  a |-> TRUE,  href |-> None],
      [li |-> TRUE,  a |-> TRUE,  href |-> Some(RelHref(<<"catalogue","page-2.html">>))],
      [li |-> TRUE,  a |-> TRUE,  href |-> Some(RelHref(<<"page-2.html">>))],
      [li |-> TRUE,  a |-> TRUE,  href |-> Some(AbsHref(base_url))],
      [li |-> TRUE,  a |-> TRUE,  href |-> Some(BadHref)] }

\* the book elements of a listing page: up to MaxItems different books
ItemLists ==
    { its \in SeqsUpTo(CrawlItems, MaxItems) :
        \A i, j \in 1..Len(its) : i # j => its[i] # its[j] }

Pages == { [items |-> its, next |-> nx] :
             its \in ItemLists, nx \in NextIndicators }

\* ------------------------------------------------------------- the crawl
FetchOutcomes == {"ok", "HTTPError", "ConnectionError", "Timeout",
                  "RequestException", "Exception"}

FetchEvent(url, ok) == [type |-> "fetch", url |-> url, ok |-> ok]
SleepEvent == [type |-> "sleep", url |-> <<>>, ok |-> TRUE]
NumFetches == Cardinality({i \in 1..Len(events) : events[i].type = "fetch"})

\* BookScraper.get_page(url): the server answers with `out`.  A page is
\* fixed the first time it is served; every exception is caught and logged
\* (lines 85-105), so a failure leaves no trace in the scraper's state.
get_page(url, out) ==
    /\ NumFetches < MaxFetches
    /\ out = "ok" => url \in SiteUrls
    /\ IF out = "ok" /\ IsNone(site[url])
       THEN \E pg \in Pages : site' = [site EXCEPT ![url] = Some(pg)]
       ELSE site' = site

\* what that call of get_page returns: the parsed page, or None
Soup(url, out) == IF out = "ok" THEN site'[url] ELSE None

\* BookScraper.scrape_page(url), given what get_page returned
scrape_page(soup) ==
    IF IsNone(soup) THEN <<>> ELSE ScrapeItems(Val(soup).items)

\* get_next_page_url that stays on the current URL when li.next is missing
get_next_page_url_stay(pg, url) ==
    IF pg.next.li /\ pg.next.a
    THEN LET relative_url == IF IsNone(pg.next.href) THEN EmptyHref
                             ELSE Val(pg.next.href)
         IN  IF UrlJoinRaises(relative_url) THEN None
             ELSE Some(UrlJoin(url, relative_url))
    ELSE Some(url)

\* BookScraper.get_next_page_url(soup, current_url)
get_next_page_url(pg, url) ==
    IF pg.next.li /\ pg.next.a
    THEN LET relative_url == IF IsNone(pg.next.href) THEN EmptyHref
                             ELSE Val(pg.next.href)
         IN  IF UrlJoinRaises(relative_url) THEN None    \* except Exception
             ELSE Some(UrlJoin(url, relative_url))
    ELSE None

\* the page's records put in front of the accumulated ones
ExtendFront(acc, pb) == pb \o acc
\* the page's records accumulated twice
ExtendTwice(acc, pb) == acc \o pb \o pb

\* all_books.extend(page_books), line 301
Extend(acc, pb) == acc \o pb

FieldNames == <<"Title", "Price", "Rating", "Availability", "URL">>
\* the row csv.DictWriter writes for a record: its values in column order
Row(book) == <<Some(book.Title), book.Price, book.Rating,
               book.Availability, book.URL>>
CsvLines(recs) == <<FieldNames>> \o [i \in 1..Len(recs) |-> Row(recs[i])]

\* a file left by an earlier run
OldFile == <<FieldNames, <<Some(<<"O","l","d">>), None, None, None, None>> >>

Callers == {"run_all", "run_single", "client"}
\* run_all:    run(scrape_all=True)
\* run_single: run(scrape_all=False)
\* client:     books_data = scrape_all_pages(), then save_to_csv()

\* ------------------------------------------------ get_page, call by call
\* The exception classes a call can meet, each with the classes it is an
\* instance of (requests.exceptions; ValueError stands for any exception
\* that is not a RequestException).
ExceptionClasses == {"HTTPError", "ConnectionError", "Timeout",
                     "ConnectTimeout", "ReadTimeout", "TooManyRedirects",
                     "ValueError"}
Bases(e) ==
    CASE e = "HTTPError"        -> {"HTTPError", "RequestException", "Exception"}
      [] e = "ConnectionError"  -> {"ConnectionError", "RequestException", "Exception"}
      [] e = "Timeout"          -> {"Timeout", "RequestException", "Exception"}
      [] e = "ConnectTimeout"   -> {"ConnectTimeout", "ConnectionError", "Timeout",
                                    "RequestException", "Exception"}
      [] e = "ReadTimeout"      -> {"ReadTimeout", "Timeout", "RequestException",
                                    "Exception"}
      [] e = "TooManyRedirects" -> {"TooManyRedirects", "RequestException",
                                    "Exception"}
      [] OTHER                  -> {e, "Exception"}

\* the except clauses of get_page without the last one (except Exception)
ExceptClausesNoCatchAll ==
    <<"HTTPError", "ConnectionError", "Timeout", "RequestException">>

\* the except clauses of get_page, in order (lines 85-105)
ExceptClauses ==
    <<"HTTPError", "ConnectionError", "Timeout", "RequestException", "Exception">>

\* response.raise_for_status(): HTTPError for a 4xx or 5xx status
RaiseForStatus(status) == 400 <= status /\ status < 600

\* what is raised inside the try block of get_page (lines 76-83), if anything
RaisedInTry(t) ==
    IF ~IsNone(t.raises) THEN t.raises                  \* session.get
    ELSE IF RaiseForStatus(t.status) THEN Some("HTTPError")
    ELSE t.parse_raises                                 \* BeautifulSoup(...)

\* BookScraper.get_page for one call: the value returned, the exception
\* that leaves the method (none when a clause catches it), and the clause
GetPageCall(t) ==
    LET e == RaisedInTry(t)
        matching == {i \in 1..Len(ExceptClauses) :
                        ExceptClauses[i] \in Bases(Val(e))}
    IN  IF IsNone(e)
        THEN [ret |-> Some(t.body), raised |-> None, handler |-> ""]
        ELSE IF matching = {}
        THEN [ret |-> None, raised |-> e, handler |-> ""]
        ELSE [ret |-> None, raised |-> None,
              handler |-> ExceptClauses[CHOOSE i \in matching :
                                          \A j \in matching : i <= j]]

StatusCodes == {200, 204, 301, 404, 500, 503}
EmptyPage == [items |-> <<>>, next |-> [li |-> FALSE, a |-> FALSE, href |-> None]]

Transports ==
    { [raises |-> Some(e), status |-> 0, body |-> EmptyPage,
       parse_raises |-> None] : e \in ExceptionClasses \ {"HTTPError"} }
    \cup
    { [raises |-> None, status |-> st, body |-> pg, parse_raises |-> None] :
        st \in StatusCodes, pg \in Pages }
    \cup
    { [raises |-> None, status |-> st, body |-> EmptyPage,
       parse_raises |-> Some("ValueError")] : st \in StatusCodes }

NoResult == [ret |-> None, raised |-> None, handler |-> ""]

getPageIdle ==
    /\ transport = [raises |-> None, status |-> 0, body |-> EmptyPage,
                    parse_raises |-> None]
    /\ gp_result = NoResult
    /\ gpc = "idle"

extractIdle ==
    /\ book_element = None /\ book_data = None /\ books = <<>> /\ epc = "idle"
ratingIdle ==
    /\ rating_class = <<>> /\ rating = None /\ rpc = "idle"
crawlIdle ==
    /\ site = [u \in SiteUrls |-> None] /\ caller = "none" /\ pc = "idle"
    /\ current_url = None /\ all_books = <<>> /\ page_books = <<>>
    /\ page_number = 0 /\ result = None /\ books_data = <<>>
    /\ csv_file = None /\ run_result = None
    /\ events = <<>> /\ steps = <<>> /\ io_outcome = ""

Init ==
    /\ site = [u \in SiteUrls |-> None]
    /\ caller \in Callers
    /\ pc = "start"
    /\ current_url = None
    /\ all_books = <<>>
    /\ page_books = <<>>
    /\ page_number = 0
    /\ result = None
    /\ books_data = <<>>               \* __init__, line 59
    /\ csv_file \in {None, Some(OldFile)}
    /\ run_result = None
    /\ events = <<>>
    /\ steps = <<>>
    /\ io_outcome = ""
    /\ extractIdle
    /\ ratingIdle
    /\ getPageIdle

\* scrape_all_pages, lines 290-294
BeginCrawl ==
    /\ pc = "start"
    /\ caller \in {"run_all", "client"}
    /\ all_books' = <<>>
    /\ current_url' = Some(base_url)
    /\ page_number' = 1
    /\ pc' = "scrape"
    /\ UNCHANGED <<site, caller, page_books, result, books_data, csv_file,
                   run_result, events, steps, io_outcome>>
    /\ UNCHANGED <<extractVars, ratingVars, getPageVars>>

\* scrape_all_pages, lines 296-303: scrape the current page and accumulate
ScrapeCurrentPage ==
    /\ pc = "scrape"
    /\ \E out \in FetchOutcomes :
          /\ get_page(Val(current_url), out)
          /\ page_books' = scrape_page(Soup(Val(current_url), out))
          /\ all_books' = Extend(all_books, page_books')
          /\ events' = Append(events, FetchEvent(Val(current_url), out = "ok"))
          /\ steps' = Append(steps, [url |-> Val(current_url), ok |-> out = "ok",
                                     followed |-> "pending"])
    /\ pc' = "next"
    /\ UNCHANGED <<caller, current_url, page_number, result, books_data,
                   csv_file, run_result, io_outcome>>
    /\ UNCHANGED <<extractVars, ratingVars, getPageVars>>

\* scrape_all_pages, lines 305-316: fetch the current URL again, follow next
FollowNext ==
    /\ pc = "next"
    /\ \E out \in FetchOutcomes :
          /\ get_page(Val(current_url), out)
          /\ IF ~IsNone(Soup(Val(current_url), out))
             THEN LET next_url == get_next_page_url(
                                      Val(Soup(Val(current_url), out)),
                                      Val(current_url))
                  IN  /\ current_url' = next_url
                      /\ page_number' = page_number + 1
                      /\ IF ~IsNone(next_url)
                         THEN /\ events' = events \o
                                    <<FetchEvent(Val(current_url), TRUE), SleepEvent>>
                              /\ pc' = "scrape"
                         ELSE /\ events' = Append(events,
                                              FetchEvent(Val(current_url), TRUE))
                              /\ pc' = "return"
             ELSE /\ events' = Append(events, FetchEvent(Val(current_url), FALSE))
                  /\ pc' = "return"                       \* break
                  /\ UNCHANGED <<current_url, page_number>>
          /\ steps' = [steps EXCEPT ![Len(steps)].followed =
                                   IF out = "ok" THEN "ok" ELSE "failed"]
    /\ UNCHANGED <<caller, all_books, page_books, result, books_data,
                   csv_file, run_result, io_outcome>>
    /\ UNCHANGED <<extractVars, ratingVars, getPageVars>>

\* scrape_all_pages returns (line 319); run stores it (line 375)
ReturnCrawl ==
    /\ pc = "return"
    /\ result' = Some(all_books)
    /\ books_data' = all_books
    /\ pc' = IF caller = "run_all" THEN "check" ELSE "save"
    /\ UNCHANGED <<site, caller, current_url, all_books, page_books,
                   page_number, csv_file, run_result, events,
                   steps, io_outcome>>
    /\ UNCHANGED <<extractVars, ratingVars, getPageVars>>

\* run(scrape_all=False), lines 376-379: scrape_page(self.base_url)
ScrapeSingle ==
    /\ pc = "start"
    /\ caller = "run_single"
    /\ \E out \in FetchOutcomes :
          /\ get_page(base_url, out)
          /\ page_books' = scrape_page(Soup(base_url, out))
          /\ events' = Append(events, FetchEvent(base_url, out = "ok"))
    /\ result' = Some(page_books')
    /\ books_data' = page_books'
    /\ pc' = "check"
    /\ UNCHANGED <<caller, current_url, all_books, page_number, csv_file,
                   run_result, steps, io_outcome>>
    /\ UNCHANGED <<extractVars, ratingVars, getPageVars>>

\* run that creates the output file, header only, when nothing was scraped
RunCheckWritesHeader ==
    /\ pc = "check"
    /\ IF books_data # <<>>
       THEN /\ pc' = "save"
            /\ UNCHANGED <<run_result, csv_file>>
       ELSE /\ pc' = "done"
            /\ run_result' = Some(FALSE)
            /\ csv_file' = Some(CsvLines(<<>>))
    /\ UNCHANGED <<site, caller, current_url, all_books, page_books,
                   page_number, result, books_data,
                   events, steps, io_outcome>>
    /\ UNCHANGED <<extractVars, ratingVars, getPageVars>>

\* run, lines 382-386
RunCheck ==
    /\ pc = "check"
    /\ IF books_data # <<>>
       THEN /\ pc' = "save"
            /\ UNCHANGED run_result
       ELSE /\ pc' = "done"
            /\ run_result' = Some(FALSE)
    /\ UNCHANGED <<site, caller, current_url, all_books, page_books,
                   page_number, result, books_data, csv_file,
                   events, steps, io_outcome>>
    /\ UNCHANGED <<extractVars, ratingVars, getPageVars>>

IoOutcomes == {"ok", "open_error", "write_error"}

\* save_to_csv that reports success whatever the file system did
SaveToCsvAlwaysTrue ==
    /\ pc = "save"
    /\ IF books_data = <<>>
       THEN /\ run_result' = Some(FALSE)
            /\ io_outcome' = "none"
            /\ UNCHANGED csv_file
       ELSE \E io \in IoOutcomes :
              /\ io_outcome' = io
              /\ run_result' = Some(TRUE)
              /\ csv_file' = IF io = "ok" THEN Some(CsvLines(books_data))
                             ELSE csv_file
    /\ pc' = "done"
    /\ UNCHANGED <<site, caller, current_url, all_books, page_books,
                   page_number, result, books_data, events, steps>>
    /\ UNCHANGED <<extractVars, ratingVars, getPageVars>>

\* save_to_csv without the guard of lines 333-335
SaveToCsvNoGuard ==
    /\ pc = "save"
    /\ \E io \in IoOutcomes :
          /\ io_outcome' = io
          /\ run_result' = Some(io = "ok")
          /\ csv_file' = IF io = "ok" THEN Some(CsvLines(books_data))
                         ELSE csv_file
    /\ pc' = "done"
    /\ UNCHANGED <<site, caller, current_url, all_books, page_books,
                   page_number, result, books_data, events, steps>>
    /\ UNCHANGED <<extractVars, ratingVars, getPageVars>>

\* BookScraper.save_to_csv.  The file system decides: the file is written,
\* open() raises (the file is untouched), or a write raises after open()
\* truncated the file (nothing, or only the header, got out).
SaveToCsv ==
    /\ pc = "save"
    /\ IF books_data = <<>>
       THEN /\ run_result' = Some(FALSE)
            /\ io_outcome' = "none"
            /\ UNCHANGED csv_file
       ELSE \E io \in IoOutcomes :
              /\ io_outcome' = io
              /\ run_result' = Some(io = "ok")
              /\ CASE io = "ok" -> csv_file' = Some(CsvLines(books_data))
                   [] io = "open_error" -> UNCHANGED csv_file
                   [] io = "write_error" ->
                        \E k \in 0..1 :
                           csv_file' = Some(SubSeq(CsvLines(books_data), 1, k))
    /\ pc' = "done"
    /\ UNCHANGED <<site, caller, current_url, all_books, page_books,
                   page_number, result, books_data, events, steps>>
    /\ UNCHANGED <<extractVars, ratingVars, getPageVars>>

Next ==
    \/ BeginCrawl
    \/ ScrapeCurrentPage
    \/ FollowNext
    \/ ReturnCrawl
    \/ ScrapeSingle
    \/ RunCheck
    \/ SaveToCsv

Spec == Init /\ [][Next]_vars

\* ------------------------------------------------- the extractor harness
InitExtract ==
    /\ crawlIdle
    /\ ratingIdle
    /\ getPageIdle
    /\ book_element \in {Some(el) : el \in BookElements}
    /\ book_data = None
    /\ books = <<>>
    /\ epc = "element"

\* one pass of the loop of scrape_page (lines 244-249) over book_element
ScrapeElement ==
    /\ epc = "element"
    /\ book_data' = extract_book_data(Val(book_element))
    /\ books' = ScrapeItems(<<Val(book_element)>>)
    /\ epc' = "done"
    /\ UNCHANGED <<book_element, crawlVars, ratingVars, getPageVars>>

NextExtract == ScrapeElement

SpecExtract == InitExtract /\ [][NextExtract]_vars

\* --------------------------------------------- the extract_rating harness
InitRating ==
    /\ crawlIdle
    /\ extractIdle
    /\ getPageIdle
    /\ rating_class \in RatingClassStrings
    /\ rating = None
    /\ rpc = "input"

ExtractRating ==
    /\ rpc = "input"
    /\ rating' = extract_rating(rating_class)
    /\ rpc' = "done"
    /\ UNCHANGED <<rating_class, crawlVars, extractVars, getPageVars>>

NextRating == ExtractRating

SpecRating == InitRating /\ [][NextRating]_vars

\* --------------------------------------------------- the get_page harness
InitGetPage ==
    /\ crawlIdle
    /\ extractIdle
    /\ ratingIdle
    /\ transport \in Transports
    /\ gp_result = NoResult
    /\ gpc = "call"

GetPage ==
    /\ gpc = "call"
    /\ gp_result' = GetPageCall(transport)
    /\ gpc' = "done"
    /\ UNCHANGED <<transport, crawlVars, extractVars, ratingVars>>

NextGetPage == GetPage

SpecGetPage == InitGetPage /\ [][NextGetPage]_vars

\* ================================================================ claims
Last(q) == q[Len(q)]
InCrawl == caller \in {"run_all", "client"}
CrawlReturned == InCrawl /\ ~IsNone(result)

\* the records of a page, in the order of their containers: the j-th record
\* comes from the j-th book element that yields one
RecordsInPageOrder(els) ==
    LET recs == [i \in 1..Len(els) |-> extract_book_data(els[i])]
        kept == {i \in 1..Len(els) : ~IsNone(recs[i])}
        nth(j) == CHOOSE i \in kept : Cardinality({m \in kept : m <= i}) = j
    IN  [j \in 1..Cardinality(kept) |-> Val(recs[nth(j)])]

\* what the extractor produced in iteration k of the crawl
ExtractedInStep(k) ==
    IF steps[k].ok THEN RecordsInPageOrder(Val(site[steps[k].url]).items)
    ELSE <<>>

RECURSIVE ExtractedUpTo(_)
ExtractedUpTo(k) ==
    IF k = 0 THEN <<>> ELSE ExtractedUpTo(k - 1) \o ExtractedInStep(k)

\* C1: in scrape_all_pages a failed fetch is the last thing the crawl does:
\* nothing (no fetch, no sleep) follows it, the crawl has left the loop, and
\* what it returns is what was accumulated before the failure.
C1_FailedFetchHaltsCrawl ==
    InCrawl =>
      \A i \in 1..Len(events) :
         (events[i].type = "fetch" /\ ~events[i].ok) =>
            /\ i = Len(events)
            /\ pc \notin {"scrape", "next"}
            /\ ~IsNone(result) => Val(result) = all_books

\* C2: in a crawl every fetch but the first comes right after a sleep, the
\* first event is a fetch, and the crawl does not end on a sleep.
C2_DelayBeforeEveryLaterFetch ==
    InCrawl =>
      /\ \A i \in 2..Len(events) :
            events[i].type = "fetch" => events[i - 1].type = "sleep"
      /\ events # <<>> => events[1].type = "fetch"
      /\ (CrawlReturned /\ events # <<>>) => Last(events).type = "fetch"

C4_ResultIsOrderedConcatenation ==
    InCrawl =>
      LET extracted == ExtractedUpTo(Len(steps))
      IN  /\ all_books = extracted
          /\ ~IsNone(result) => Val(result) = extracted

C4_Witness ==
    /\ CrawlReturned
    /\ Len(steps) = 2
    /\ Len(ExtractedInStep(1)) = 2 /\ Len(ExtractedInStep(2)) > 0
    /\ Val(result)[1] # Val(result)[2]
    /\ Val(result)[3] # Val(result)[1]
    /\ Len(Val(site[steps[1].url]).items) > Len(ExtractedInStep(1)) - 1

\* C5: every record the extractor emits has a non-empty Title, and a book
\* element whose title cannot be read (no h3, no link in it, or no title
\* text) yields no record.
TitleReadable(el) == el.h3 /\ el.a /\ TitleOf(el) # <<>>

C5_EmittedTitleNonEmpty ==
    epc = "done" =>
      /\ \A i \in 1..Len(books) : books[i].Title # <<>>
      /\ ~TitleReadable(Val(book_element)) => books = <<>>

\* C6: run returns True exactly when the scrape produced at least one
\* record and the CSV write succeeded; then the file holds the header row
\* followed by one row per record, in order; otherwise it returns False.
InRun == caller \in {"run_all", "run_single"}

C6_RunTrueIffScrapedAndSaved ==
    (InRun /\ pc = "done") =>
      /\ run_result \in {Some(TRUE), Some(FALSE)}
      /\ run_result = Some(TRUE) <=>
            (Val(result) # <<>> /\ io_outcome = "ok")
      /\ run_result = Some(TRUE) =>
            /\ ~IsNone(csv_file)
            /\ Len(Val(csv_file)) = Len(Val(result)) + 1
            /\ Val(csv_file)[1] = FieldNames
            /\ \A i \in 1..Len(Val(result)) :
                  Val(csv_file)[i + 1] = Row(Val(result)[i])

C6_Witness ==
    /\ caller = "run_all" /\ pc = "done"
    /\ run_result = Some(TRUE)
    /\ Len(Val(csv_file)) = 4
    /\ Len(steps) = 2

\* C7: save_to_csv returns False when there are no records or when the
\* destination cannot be opened, and always returns a boolean; a crawl
\* whose fetches of the start URL all fail returns the empty sequence, for
\* which save_to_csv returns False.
StartUrlFetchFails ==
    /\ events # <<>>
    /\ \A i \in 1..Len(events) :
          (events[i].type = "fetch" /\ events[i].url = base_url) => ~events[i].ok

AllFetchesOk == \A i \in 1..Len(events) : events[i].ok
StartPageHasNoNext ==
    /\ ~IsNone(site[base_url])
    /\ ~(Val(site[base_url]).next.li /\ Val(site[base_url]).next.a)

C8_SinglePageEqualsFullCrawl ==
    (~IsNone(result) /\ AllFetchesOk /\ StartPageHasNoNext) =>
       Val(result) = RecordsInPageOrder(Val(site[base_url]).items)

C8_Witness ==
    /\ CrawlReturned /\ AllFetchesOk /\ StartPageHasNoNext
    /\ Len(Val(result)) = 2

\* C9: for a book element with a readable title a record is always
\* produced, and each of Price, Rating, Availability and URL is what its
\* own markup yields (null when absent or unparsable), whatever the others.
C9_FieldsDegradeIndependently ==
    (epc = "done" /\ TitleReadable(Val(book_element))) =>
      /\ ~IsNone(book_data)
      /\ Val(book_data).Price = PriceOf(Val(book_element))
      /\ Val(book_data).Rating = RatingOf(Val(book_element))
      /\ Val(book_data).Availability = AvailabilityOf(Val(book_element))
      /\ Len(books) = 1

\* C10 (as claimed): the rating is that of a recognized word occurring in
\* the class string in any letter case and at any position; null only
\* when none of the five words occurs in any letter case.
OccursNoCase(rc, i) == Contains(Lower(rc), Lower(rating_map[i].word))
Occurs(rc, i) == Contains(rc, rating_map[i].word)

C10_RatingMatchIgnoresCase ==
    rpc = "done" =>
      IF \E i \in 1..5 : OccursNoCase(rating_class, i)
      THEN /\ ~IsNone(rating)
           /\ Val(rating) \in 1..5
           /\ OccursNoCase(rating_class, Val(rating))
      ELSE IsNone(rating)

\* C10 (amended): the rating is that of the first of One, Two, Three, Four,
\* Five that occurs in the class string with exactly that capitalisation, at
\* any position; null exactly when none of the five occurs so.
C10_RatingMatchCaseSensitive ==
    rpc = "done" =>
      IF \E i \in 1..5 : Occurs(rating_class, i)
      THEN /\ ~IsNone(rating)
           /\ Val(rating) \in 1..5
           /\ Occurs(rating_class, Val(rating))
           /\ \A j \in 1..(Val(rating) - 1) : ~Occurs(rating_class, j)
      ELSE IsNone(rating)

C10_Witness ==
    /\ rpc = "done"
    /\ rating = Some(2)
    /\ rating_class = <<"n","e","T","w","o","r","k"," ","o","n","e">>

\* C11: every record's Price, when it was parsed (is not null), is greater
\* than or equal to 0.
C11_ParsedPriceNonNegative ==
    epc = "done" =>
      \A i \in 1..Len(books) :
         ~IsNone(books[i].Price) => Val(books[i].Price) >= 0

\* the URL column a page's records should carry when each href is resolved
\* against the URL of the page it was found on
UrlsResolvedOnPage(url, els) ==
    LET kept == {i \in 1..Len(els) : ~IsNone(extract_book_data(els[i]))}
        nth(j) == CHOOSE i \in kept : Cardinality({m \in kept : m <= i}) = j
    IN  [j \in 1..Cardinality(kept) |-> Some(UrlJoin(url, HrefOf(els[nth(j)])))]

RECURSIVE UrlsResolvedUpTo(_)
UrlsResolvedUpTo(k) ==
    IF k = 0 THEN <<>>
    ELSE UrlsResolvedUpTo(k - 1) \o
         (IF steps[k].ok
          THEN UrlsResolvedOnPage(steps[k].url, Val(site[steps[k].url]).items)
          ELSE <<>>)

\* C12: the URL of every record of a crawl is its item's href resolved
\* against the URL of the page the item was found on, on every page of the
\* crawl; no record carries a null URL, since an item without a link yields
\* no record.
C12_UrlResolvedAgainstItsPage ==
    InCrawl =>
      [i \in 1..Len(all_books) |-> all_books[i].URL]
          = UrlsResolvedUpTo(Len(steps))

\* C13: get_page raises nothing and returns None whenever the fetch fails
\* (session.get raises, the status is an error status, or parsing raises),
\* and returns the parsed page exactly when none of these happened.
FetchFailed(t) ==
    \/ ~IsNone(t.raises)
    \/ (t.status >= 400 /\ t.status <= 599)
    \/ ~IsNone(t.parse_raises)

C13_GetPageNoneOnEveryFailure ==
    gpc = "done" =>
      /\ IsNone(gp_result.raised)
      /\ FetchFailed(transport) => IsNone(gp_result.ret)
      /\ ~FetchFailed(transport) => gp_result.ret = Some(transport.body)

C13_Witness ==
    /\ gpc = "done"
    /\ transport.raises = Some("ValueError")
    /\ IsNone(gp_result.ret)
    /\ IsNone(gp_result.raised)
    /\ gp_result.handler = "Exception"

\* C14: every iteration of the crawl fetches its URL once, so that the
\* records it appends and the next link it follows come from one response:
\* there are never more fetches than iterations, and an iteration's records
\* and its next link are either both taken from a response or both missing.
C14_OneFetchPerIteration ==
    InCrawl =>
      /\ NumFetches <= Len(steps)
      /\ \A k \in 1..Len(steps) :
            steps[k].followed # "pending" =>
               (steps[k].ok <=> steps[k].followed = "ok")

\* C15, in three parts.
InLoop == pc \in {"scrape", "next"}
LeftLoop == InCrawl /\ pc \notin {"start", "scrape", "next"}

\* the crawl is DONE only after a failed fetch or a page giving no next URL
DoneOnlyByNoNextOrFailure ==
    LeftLoop =>
      LET lst == steps[Len(steps)]
      IN  \/ lst.followed = "failed"
          \/ /\ lst.followed = "ok"
             /\ IsNone(get_next_page_url(Val(site[lst.url]), lst.url))

\* a failed fetch ends the chain: no iteration starts after the one it
\* happened in
FailedFetchEndsChain ==
    InCrawl =>
      \A k \in 1..Len(steps) :
         (~steps[k].ok \/ steps[k].followed = "failed") =>
            /\ k = Len(steps)
            /\ pc # "scrape"

\* with every fetch succeeding, a crawl that came back to a URL it had
\* already visited is still in the loop
RevisitNeverDone ==
    (InCrawl /\ AllFetchesOk
       /\ \E i, j \in 1..Len(steps) : i < j /\ steps[i].url = steps[j].url)
    => InLoop

\* C15: the crawl reaches DONE exactly when the chain of next links reaches
\* a page with no next link or a fetch that fails; when the links lead back
\* to a visited URL and every fetch succeeds it never reaches DONE.
C15_DoneIffChainEnds ==
    /\ DoneOnlyByNoNextOrFailure
    /\ FailedFetchEndsChain
    /\ RevisitNeverDone

\* the output file changes only inside save_to_csv, once the scrape has
\* returned a non-empty result
FileWrittenOnlyAfterScrape ==
    csv_file' # csv_file =>
       (pc = "save" /\ ~IsNone(result) /\ books_data # <<>>)

\* a run that scraped nothing does not reach save_to_csv, leaves the file as
\* it was and ends with False
EmptyRunLeavesFile ==
    (InRun /\ result' = Some(<<>>)) =>
       /\ io_outcome' = ""
       /\ pc' # "save"
       /\ ~IsNone(result) => csv_file' = csv_file
       /\ pc' = "done" => run_result' = Some(FALSE)

\* C16: when a run scrapes zero records it returns False without opening
\* the output file, whose earlier content stays as it was; the file is
\* written only after the whole scrape has completed.
C16_EmptyRunLeavesFileUntouched ==
    [][FileWrittenOnlyAfterScrape /\ EmptyRunLeavesFile]_vars

C16_Witness ==
    /\ caller = "run_all" /\ pc = "done"
    /\ result = Some(<<>>)
    /\ Len(steps) = 2
    /\ csv_file = Some(OldFile)
    /\ run_result = Some(FALSE)
    /\ io_outcome = ""

====
